---- MODULE Spec2Model ----
(***************************************************************************)
(* Static hash index over a paginated word list (projeto-indice-hash).     *)
(*                                                                         *)
(* The repository holds three variants of the same page script:            *)
(*   variant 1  src/script.js lines 8-424    NB = NR, build hashes the     *)
(*              lower-cased word, buckets are {items, overflow}            *)
(*   variant 2  src/script.js lines 429-848  NB = ceil(NR/FR)+1, build     *)
(*              hashes the word as written, buckets are {items, overflow}  *)
(*   variant 3  src/unnamed/part_000         NB = ceil(NR/FR)+1, buckets   *)
(*              are plain arrays, everything is case-sensitive             *)
(* A behaviour runs one of them (variant is fixed by Init).                *)
(*                                                                         *)
(* Strings are sequences of UTF-16 code units.  Array positions are        *)
(* 1-based here and 0-based in the source: hashTable[b + 1] models         *)
(* hashTable[b]; the page stored in an entry and the page reported by a    *)
(* query keep the source's 0-based index.                                  *)
(***************************************************************************)
EXTENDS Integers, Sequences, FiniteSets, TLC

VARIABLES
    variant,      \* which of the three scripts is loaded in the page
    file,         \* lines of Assets/palavras.txt as served (already split)
    words,        \* let words
    pages,        \* let pages
    hashTable,    \* let hashTable
    config,       \* let config
    stats,        \* let stats
    pending,      \* number of handleBuildIndex calls suspended on the file load
    lastQuery,    \* what the most recent query handler reported or raised
    display,      \* style.display of the data, search and results panels
    hashIn,       \* argument of the hashFunction call under test (SpecHash)
    hashOut,      \* its result (SpecHash)
    numPagesInput, \* numPagesInput.value at the last click on the build button (SpecInput)
    overlapped     \* history: the last accepted click came while a call was suspended (SpecOverlap)

progVars == <<variant, file, words, pages, hashTable, config, stats, pending, lastQuery,
              display>>
hashVars == <<hashIn, hashOut>>
vars == <<variant, file, words, pages, hashTable, config, stats, pending, lastQuery,
          display, hashIn, hashOut, numPagesInput, overlapped>>

(***************************************************************************)
(* Bounds                                                                  *)
(***************************************************************************)
MaxWords == 6
MaxShortWords == 2
MaxPagesReq == 2
MaxPending == 1
MaxOverlap == 2
MaxHashLen == 6
MaxHashBuckets == 7

(***************************************************************************)
(* Strings                                                                 *)
(***************************************************************************)
kAb == <<65, 98>>          \* "Ab"
kab == <<97, 98>>          \* "ab"
kabSp == <<97, 98, 32>>    \* "ab " (a line with a trailing blank)
kc == <<99>>               \* "c"
kBlank == <<32>>           \* " "

KeyPool == {kAb, kab, kabSp, kc}
\* The words of the longer files.  "c" and "ab" share a bucket when there are
\* 2, 3, 4 or 6 buckets, so a full bucket can hold two different keys.
LongPool == {kAb, kc}
SearchTexts == KeyPool \cup {kBlank}

\* White space as String.prototype.trim sees it (the code units below 256).
IsWhiteSpace(c) == c \in {9, 10, 11, 12, 13, 32, 160}

RECURSIVE TrimStart(_)
TrimStart(s) ==
    IF s = <<>> THEN <<>>
    ELSE IF IsWhiteSpace(Head(s)) THEN TrimStart(Tail(s)) ELSE s

RECURSIVE TrimEnd(_)
TrimEnd(s) ==
    IF s = <<>> THEN <<>>
    ELSE IF IsWhiteSpace(s[Len(s)]) THEN TrimEnd(SubSeq(s, 1, Len(s) - 1)) ELSE s

Trim(s) == TrimEnd(TrimStart(s))

\* String.prototype.toLowerCase on the ASCII range: A-Z map to a-z.
ToLowerCase(s) == [i \in DOMAIN s |-> IF s[i] >= 65 /\ s[i] <= 90 THEN s[i] + 32 ELSE s[i]]

(***************************************************************************)
(* parseInt(text, 10)                                                      *)
(***************************************************************************)
IsDigit(c) == c >= 48 /\ c <= 57

\* After white space, an optional sign.
ParseIntBody(s) ==
    LET t == TrimStart(s)
    IN IF t # <<>> /\ Head(t) \in {43, 45} THEN Tail(t) ELSE t

ParseIntNegative(s) ==
    LET t == TrimStart(s) IN t # <<>> /\ Head(t) = 45

RECURSIVE DigitsValue(_, _)
DigitsValue(s, acc) ==
    IF s = <<>> \/ ~IsDigit(Head(s)) THEN acc
    ELSE DigitsValue(Tail(s), acc * 10 + (Head(s) - 48))

\* parseInt returns NaN when no digit follows the sign.
ParseIntIsNaN(s) == LET b == ParseIntBody(s) IN b = <<>> \/ ~IsDigit(Head(b))

\* Defined when ~ParseIntIsNaN(s): the digits up to the first other character.
ParseIntValue(s) ==
    LET v == DigitsValue(ParseIntBody(s), 0)
    IN IF ParseIntNegative(s) THEN 0 - v ELSE v

(***************************************************************************)
(* hashFunction                                                            *)
(***************************************************************************)
\* Bitwise XOR of two naturals.
RECURSIVE BitXor(_, _)
BitXor(a, b) ==
    IF a = 0 THEN b
    ELSE IF b = 0 THEN a
    ELSE (((a % 2) + (b % 2)) % 2) + 2 * BitXor(a \div 2, b \div 2)

\* A 32-bit accumulator is kept as its two 16-bit halves <<hi, lo>>, so that
\* no intermediate value leaves the checker's integer range.
\* One round of  hash = (hash * 33) ^ key.charCodeAt(i) : the product is
\* exact, and ^ keeps its low 32 bits (ToInt32).  c is a code unit, c < 2^16.
HashStep(h, c) ==
    LET lo33 == h[2] * 33
        hi33 == (h[1] * 33 + (lo33 \div 65536)) % 65536
    IN <<hi33, BitXor(lo33 % 65536, c)>>

RECURSIVE HashAcc(_, _)
HashAcc(h, key) ==
    IF key = <<>> THEN h ELSE HashAcc(HashStep(h, Head(key)), Tail(key))

\* let hash = 5381  (5381 = 0 * 65536 + 5381)
HashSeed == <<0, 5381>>

\* The accumulator read as a signed 32-bit integer is negative.
IsNegative32(h) == h[1] >= 32768

\* Math.abs(hash % n) for n >= 1: the remainder takes the sign of hash, so
\* the result is |hash| mod n.  For a negative hash, |hash| = 2^32 - unsigned.
AbsMod(h, n) ==
    IF ~IsNegative32(h) THEN (h[1] * 65536 + h[2]) % n
    ELSE LET alo == (65536 - h[2]) % 65536
             ahi == IF h[2] = 0 THEN 65536 - h[1] ELSE 65535 - h[1]
         IN ((ahi % n) * (65536 % n) + (alo % n)) % n

\* hash % 0 is NaN and Math.abs(NaN) is NaN.  hashFunction returns no
\* negative number, so -1 stands for NaN.
NaN == 0 - 1

\* hash % n without Math.abs: the remainder keeps the sign of hash.
HashModNoAbs(key, n) ==
    IF n = 0 THEN NaN
    ELSE LET h == HashAcc(HashSeed, key)
         IN IF IsNegative32(h) THEN 0 - AbsMod(h, n) ELSE AbsMod(h, n)

\* hashFunction with config.numBuckets = n.
HashMod(key, n) ==
    IF n = 0 THEN NaN ELSE AbsMod(HashAcc(HashSeed, key), n)

hashFunction(key) == HashMod(key, config.numBuckets)

(***************************************************************************)
(* Initial values of the script's state                                    *)
(***************************************************************************)
InitConfig ==
    [numPagesReq |-> 0, numPagesCreated |-> 0, wordsPerPage |-> 0,
     numBuckets |-> 0, bucketSize |-> 5, totalWords |-> 0]

InitStats == [collisions |-> 0, overflows |-> 0]

\* No result is on display.
NoQuery == [op |-> "none"]

(***************************************************************************)
(* createPages                                                             *)
(***************************************************************************)
Min(a, b) == IF a <= b THEN a ELSE b

\* Math.ceil(a / b) for integers a >= 0, b >= 1.
Ceil(a, b) == (a + b - 1) \div b

\* Array.prototype.slice(from, to) with 0 <= from <= to.
Slice(s, from, to) == SubSeq(s, from + 1, Min(to, Len(s)))

\* for (let i = 0; i < totalWords; i += wordsPerPage) pages.push(words.slice(i, i + wordsPerPage))
RECURSIVE PagesFromOverlap(_, _, _, _)
PagesFromOverlap(ws, totalWords, wordsPerPage, i) ==
    IF i >= totalWords THEN <<>>
    ELSE <<Slice(ws, i, i + wordsPerPage + 1)>>
             \o PagesFromOverlap(ws, totalWords, wordsPerPage, i + wordsPerPage)

RECURSIVE PagesFromOneShort(_, _, _, _)
PagesFromOneShort(ws, totalWords, wordsPerPage, i) ==
    IF i + 1 >= totalWords THEN <<>>
    ELSE <<Slice(ws, i, i + wordsPerPage)>>
             \o PagesFromOneShort(ws, totalWords, wordsPerPage, i + wordsPerPage)

RECURSIVE PagesFrom(_, _, _, _)
PagesFrom(ws, totalWords, wordsPerPage, i) ==
    IF i >= totalWords THEN <<>>
    ELSE <<Slice(ws, i, i + wordsPerPage)>>
             \o PagesFrom(ws, totalWords, wordsPerPage, i + wordsPerPage)

\* Math.floor in place of Math.ceil (at least 1, so that the loop ends).
WordsPerPageFloor(totalWords, numPages) ==
    IF totalWords \div numPages = 0 THEN 1 ELSE totalWords \div numPages

\* Math.ceil(totalWords / numPages); numPages >= 1 is what handleBuildIndex lets through.
WordsPerPage(totalWords, numPages) == Ceil(totalWords, numPages)

\* config.wordsPerPage computed only while it is still 0: a later build with
\* another page count keeps the page size of the first.
createPagesCached(ws, cfg) ==
    LET wordsPerPage == IF cfg.wordsPerPage > 0 THEN cfg.wordsPerPage
                        ELSE Ceil(cfg.totalWords, cfg.numPagesReq)
        ps == PagesFrom(ws, cfg.totalWords, wordsPerPage, 0)
    IN [pages |-> ps,
        config |-> [cfg EXCEPT !.wordsPerPage = wordsPerPage,
                               !.numPagesCreated = Len(ps)]]

\* The pages and the config createPages leaves, from words ws and config cfg.
createPages(ws, cfg) ==
    LET wordsPerPage == WordsPerPage(cfg.totalWords, cfg.numPagesReq)
        ps == PagesFrom(ws, cfg.totalWords, wordsPerPage, 0)
    IN [pages |-> ps,
        config |-> [cfg EXCEPT !.wordsPerPage = wordsPerPage,
                               !.numPagesCreated = Len(ps)]]

(***************************************************************************)
(* createBuckets                                                           *)
(***************************************************************************)
EmptyBucket == [items |-> <<>>, overflow |-> <<>>]

\* variant 1: config.numBuckets = config.totalWords
NumBucketsV1(cfg) == cfg.totalWords

\* variants 2 and 3: Math.ceil(config.totalWords / config.bucketSize) + 1
NumBucketsV2(cfg) == Ceil(cfg.totalWords, cfg.bucketSize) + 1

createBuckets(v, cfg) ==
    LET n == IF v = 1 THEN NumBucketsV1(cfg) ELSE NumBucketsV2(cfg)
    IN [config |-> [cfg EXCEPT !.numBuckets = n],
        hashTable |-> [b \in 1..n |-> IF v = 3 THEN <<>> ELSE EmptyBucket]]

(***************************************************************************)
(* populateHashTable                                                       *)
(***************************************************************************)
\* pages.forEach((page, pageIndex) => page.forEach(word => ...)): the
\* (word, pageIndex) pairs in the order the two loops visit them.
RECURSIVE PageEntries(_, _)
PageEntries(ps, pageIndex) ==
    IF pageIndex >= Len(ps) THEN <<>>
    ELSE [i \in 1..Len(ps[pageIndex + 1]) |->
              [key |-> ps[pageIndex + 1][i], page |-> pageIndex]]
         \o PageEntries(ps, pageIndex + 1)

\* The word hashed as written in every variant.
BuildHashKeyRaw(v, word) == word

\* The string the build hashes: variant 1 hashes word.toLowerCase(), variants 2 and 3 hash word.
BuildHashKey(v, word) == IF v = 1 THEN ToLowerCase(word) ELSE word

\* <= in place of < in the test for room.
PlaceEntryOffByOne(st, b, entry, cfg) ==
    LET bucket == st.hashTable[b + 1]
    IN IF Len(bucket.items) <= cfg.bucketSize
       THEN [hashTable |-> [st.hashTable EXCEPT ![b + 1].items = Append(@, entry)],
             stats |-> IF Len(bucket.items) > 0
                       THEN [st.stats EXCEPT !.collisions = @ + 1]
                       ELSE st.stats]
       ELSE [hashTable |-> [st.hashTable EXCEPT ![b + 1].overflow = Append(@, entry)],
             stats |-> [st.stats EXCEPT !.overflows = @ + 1]]

\* A full bucket counts the overflow and drops the entry.
PlaceEntryDropOverflow(st, b, entry, cfg) ==
    LET bucket == st.hashTable[b + 1]
    IN IF Len(bucket.items) < cfg.bucketSize
       THEN [hashTable |-> [st.hashTable EXCEPT ![b + 1].items = Append(@, entry)],
             stats |-> st.stats]
       ELSE [hashTable |-> st.hashTable,
             stats |-> [st.stats EXCEPT !.overflows = @ + 1]]

\* The test for room made against bucketSize - 1: the overflow starts one entry early.
PlaceEntryEarlyOverflow(st, b, entry, cfg) ==
    LET bucket == st.hashTable[b + 1]
    IN IF Len(bucket.items) < cfg.bucketSize - 1
       THEN [hashTable |-> [st.hashTable EXCEPT ![b + 1].items = Append(@, entry)],
             stats |-> IF Len(bucket.items) > 0
                       THEN [st.stats EXCEPT !.collisions = @ + 1]
                       ELSE st.stats]
       ELSE [hashTable |-> [st.hashTable EXCEPT ![b + 1].overflow = Append(@, entry)],
             stats |-> [st.stats EXCEPT !.overflows = @ + 1]]

\* The collision counted on every insertion into a bucket that is not empty,
\* the ones that go to overflow included.
PlaceEntryCollisionOnOverflow(st, b, entry, cfg) ==
    LET bucket == st.hashTable[b + 1]
    IN IF Len(bucket.items) < cfg.bucketSize
       THEN [hashTable |-> [st.hashTable EXCEPT ![b + 1].items = Append(@, entry)],
             stats |-> IF Len(bucket.items) > 0
                       THEN [st.stats EXCEPT !.collisions = @ + 1]
                       ELSE st.stats]
       ELSE [hashTable |-> [st.hashTable EXCEPT ![b + 1].overflow = Append(@, entry)],
             stats |-> [collisions |-> st.stats.collisions + 1,
                        overflows |-> st.stats.overflows + 1]]

\* variants 1 and 2, the body of the inner loop once bucketIndex = b is known:
\* items while there is room, overflow after that.
PlaceEntry(st, b, entry, cfg) ==
    LET bucket == st.hashTable[b + 1]
    IN IF Len(bucket.items) < cfg.bucketSize
       THEN [hashTable |-> [st.hashTable EXCEPT ![b + 1].items = Append(@, entry)],
             stats |-> IF Len(bucket.items) > 0
                       THEN [st.stats EXCEPT !.collisions = @ + 1]
                       ELSE st.stats]
       ELSE [hashTable |-> [st.hashTable EXCEPT ![b + 1].overflow = Append(@, entry)],
             stats |-> [st.stats EXCEPT !.overflows = @ + 1]]

\* variant 3: the bucket is one array; the counters are bumped, the entry is always pushed.
PushEntry(st, b, entry, cfg) ==
    LET bucket == st.hashTable[b + 1]
        c == IF Len(bucket) > 0 THEN 1 ELSE 0
        o == IF Len(bucket) >= cfg.bucketSize THEN 1 ELSE 0
    IN [hashTable |-> [st.hashTable EXCEPT ![b + 1] = Append(@, entry)],
        stats |-> [collisions |-> st.stats.collisions + c,
                   overflows |-> st.stats.overflows + o]]

\* One round of the inner loop.
InsertWord(v, st, entry, cfg) ==
    LET b == HashMod(BuildHashKey(v, entry.key), cfg.numBuckets)
    IN IF v = 3 THEN PushEntry(st, b, entry, cfg) ELSE PlaceEntry(st, b, entry, cfg)

\* The table and the counters after the first k rounds.
RECURSIVE PopulatePrefix(_, _, _, _, _)
PopulatePrefix(v, entries, k, table, cfg) ==
    IF k = 0 THEN [hashTable |-> table, stats |-> InitStats]
    ELSE InsertWord(v, PopulatePrefix(v, entries, k - 1, table, cfg), entries[k], cfg)

populateHashTable(v, ps, table, cfg) ==
    LET entries == PageEntries(ps, 0)
    IN PopulatePrefix(v, entries, Len(entries), table, cfg)

(***************************************************************************)
(* searchWithIndex and performTableScan                                    *)
(***************************************************************************)
\* The key a query handler works with: variants 1 and 2 take
\* searchKeyInput.value.trim().toLowerCase(), variant 3 takes searchKeyInput.value.trim().
QueryKey(v, text) == IF v = 3 THEN Trim(text) ELSE ToLowerCase(Trim(text))

\* The comparison a query makes on a stored key: variants 1 and 2 compare
\* item.key.toLowerCase() (word.toLowerCase()) with the key, variant 3 item.key itself.
Matches(v, stored, key) == IF v = 3 THEN stored = key ELSE ToLowerCase(stored) = key

\* Position of the first element of s whose key matches, 0 when there is none.
RECURSIVE FirstMatch(_, _, _, _)
FirstMatch(v, s, key, i) ==
    IF i > Len(s) THEN 0
    ELSE IF Matches(v, s[i].key, key) THEN i
    ELSE FirstMatch(v, s, key, i + 1)

\* hashTable[bucketIndex] is undefined: the index is NaN or beyond the array.
BucketUndefined(b) == b = NaN \/ b + 1 > Len(hashTable)

\* The overflow list walked before the items.
ProbeOrderOverflowFirst(v, b) ==
    IF v = 3 THEN hashTable[b + 1]
    ELSE hashTable[b + 1].overflow \o hashTable[b + 1].items

\* The entries of hashTable[b] in the order searchWithIndex visits them:
\* items, then overflow (variants 1 and 2); the array itself (variant 3).
ProbeOrder(v, b) ==
    IF v = 3 THEN hashTable[b + 1]
    ELSE hashTable[b + 1].items \o hashTable[b + 1].overflow

\* One more unit for every entry compared with the key.
IndexCostPerEntry(v, probe, i) ==
    1 + (IF i > 0 THEN i ELSE Len(probe))

\* One more unit when the walk goes on into the overflow list.
IndexCostOverflowWalk(v, probe, i) ==
    1 + (IF v # 3 /\ (i > config.bucketSize \/ (i = 0 /\ Len(probe) > config.bucketSize))
         THEN 1 ELSE 0)
      + (IF i > 0 THEN 1 ELSE 0)

\* let cost = 1, and cost++ when the key is found: i is the position of the
\* match in the probe order, 0 when there is none.
IndexCost(v, probe, i) == 1 + (IF i > 0 THEN 1 ELSE 0)

\* What searchWithIndex reports for the text in the search box (not blank).
\* Reading .items of an undefined bucket (variants 1, 2), or iterating it
\* (variant 3), raises a TypeError that nothing catches.
IndexOutcome(v, text) ==
    LET key == QueryKey(v, text)
        b == hashFunction(key)
    IN IF BucketUndefined(b)
       THEN [op |-> "index", status |-> "TypeError"]
       ELSE LET probe == ProbeOrder(v, b)
                i == FirstMatch(v, probe, key, 1)
            IN IF i > 0
               THEN [op |-> "index", text |-> text, status |-> "found",
                     key |-> IF v = 3 THEN key ELSE probe[i].key,
                     page |-> probe[i].page, cost |-> IndexCost(v, probe, i)]
               ELSE [op |-> "index", text |-> text, status |-> "notfound",
                     key |-> Trim(text), cost |-> IndexCost(v, probe, i)]

\* Index of the first page at or after pageIndex holding a match, Len(pages) when there is none.
RECURSIVE FirstPage(_, _, _)
FirstPage(v, key, pageIndex) ==
    IF pageIndex >= Len(pages) THEN Len(pages)
    ELSE IF \E i \in 1..Len(pages[pageIndex + 1]) : Matches(v, pages[pageIndex + 1][i], key)
         THEN pageIndex
         ELSE FirstPage(v, key, pageIndex + 1)

\* First word of page p that matches (page.find).
RECURSIVE FirstWord(_, _, _, _)
FirstWord(v, p, key, i) ==
    IF Matches(v, p[i], key) THEN p[i] ELSE FirstWord(v, p, key, i + 1)

\* cost++ placed after the test of the page: the page that holds the key is not counted.
ScanOutcomeCostAfterCheck(v, text) ==
    LET key == QueryKey(v, text)
        pageIndex == FirstPage(v, key, 0)
    IN IF pageIndex < Len(pages)
       THEN [op |-> "scan", text |-> text, status |-> "found",
             key |-> IF v = 3 THEN key ELSE FirstWord(v, pages[pageIndex + 1], key, 1),
             page |-> pageIndex, cost |-> pageIndex]
       ELSE [op |-> "scan", text |-> text, status |-> "notfound",
             key |-> Trim(text), cost |-> Len(pages)]

\* What performTableScan reports for the text in the search box (not blank):
\* cost is the number of pages read.
ScanOutcome(v, text) ==
    LET key == QueryKey(v, text)
        pageIndex == FirstPage(v, key, 0)
    IN IF pageIndex < Len(pages)
       THEN [op |-> "scan", text |-> text, status |-> "found",
             key |-> IF v = 3 THEN key ELSE FirstWord(v, pages[pageIndex + 1], key, 1),
             page |-> pageIndex, cost |-> pageIndex + 1]
       ELSE [op |-> "scan", text |-> text, status |-> "notfound",
             key |-> Trim(text), cost |-> Len(pages)]

(***************************************************************************)
(* updateStaticDisplay: the collision and overflow rates                   *)
(***************************************************************************)
\* The division made whatever totalWords is: 0 / 0 is NaN and toFixed gives "NaN".
RatePercentUnguarded(v, count, total) ==
    IF total > 0 THEN (count * 20000 + total) \div (2 * total) ELSE NaN

\* ((count / total) * 100).toFixed(2), in hundredths of a percent.  The two
\* scripts of src/script.js test config.totalWords > 0 first and show 0
\* otherwise; variant 3 divides at once.
RatePercent(v, count, total) ==
    IF total > 0 THEN (count * 20000 + total) \div (2 * total)
    ELSE IF v = 3 THEN NaN ELSE 0

\* The two rates updateStaticDisplay writes at the end of a build.
collisionPercent == RatePercent(variant, stats.collisions, config.totalWords)
overflowPercent == RatePercent(variant, stats.overflows, config.totalWords)

(***************************************************************************)
(* Handlers                                                                *)
(***************************************************************************)
\* What the user may have typed in numPagesInput: "1".."9" up to MaxPagesReq,
\* and "", "x", "0", "-1", "2.5", "1x".
PageInputs ==
    {<<48 + n>> : n \in 1..MaxPagesReq}
        \cup {<<>>, <<120>>, <<48>>, <<45, 49>>, <<50, 46, 53>>, <<49, 120>>}

\* text.split(/\r?\n/) of a file whose lines all end in a line break: the
\* lines, then the empty string that follows the last break.
SplitLines(f) == f \o <<<<>>>>

\* .filter(word => word.trim() !== '')
RECURSIVE NonBlank(_)
NonBlank(ls) ==
    IF ls = <<>> THEN <<>>
    ELSE IF Trim(Head(ls)) # <<>> THEN <<Head(ls)>> \o NonBlank(Tail(ls))
    ELSE NonBlank(Tail(ls))

\* resetState() called before the input is validated.
BuildIndexStartResetFirst(input) ==
    IF ParseIntIsNaN(input) \/ ParseIntValue(input) <= 0
    THEN /\ words' = <<>>
         /\ pages' = <<>>
         /\ hashTable' = <<>>
         /\ stats' = InitStats
         /\ lastQuery' = NoQuery
         /\ display' = "none"
         /\ UNCHANGED <<variant, file, config, pending>>
    ELSE /\ ParseIntValue(input) <= MaxPagesReq
         /\ config' = [config EXCEPT !.numPagesReq = ParseIntValue(input)]
         /\ words' = <<>>
         /\ pages' = <<>>
         /\ hashTable' = <<>>
         /\ stats' = InitStats
         /\ lastQuery' = NoQuery
         /\ display' = "none"
         /\ pending' = pending + 1
         /\ UNCHANGED <<variant, file>>

\* resetState() leaving hashTable as it is.
BuildIndexStartKeepTable(input) ==
    IF ParseIntIsNaN(input) \/ ParseIntValue(input) <= 0
    THEN UNCHANGED progVars
    ELSE /\ ParseIntValue(input) <= MaxPagesReq
         /\ config' = [config EXCEPT !.numPagesReq = ParseIntValue(input)]
         /\ words' = <<>>
         /\ pages' = <<>>
         /\ stats' = InitStats
         /\ lastQuery' = NoQuery
         /\ display' = "none"
         /\ pending' = pending + 1
         /\ UNCHANGED <<variant, file, hashTable>>

\* config.numPagesReq written only when no call is suspended.
BuildIndexStartKeepCount(input) ==
    IF ParseIntIsNaN(input) \/ ParseIntValue(input) <= 0
    THEN UNCHANGED progVars
    ELSE /\ ParseIntValue(input) <= MaxPagesReq
         /\ config' = IF pending > 0 THEN config
                      ELSE [config EXCEPT !.numPagesReq = ParseIntValue(input)]
         /\ words' = <<>>
         /\ pages' = <<>>
         /\ hashTable' = <<>>
         /\ stats' = InitStats
         /\ lastQuery' = NoQuery
         /\ display' = "none"
         /\ pending' = pending + 1
         /\ UNCHANGED <<variant, file>>

\* handleBuildIndex up to its first await, with `input` in numPagesInput:
\* validation, config.numPagesReq, resetState() (which also hides the
\* panels), fetch issued.  A rejected input only raises an alert.  (The
\* guard on MaxPagesReq bounds the model, not the script.)
BuildIndexStart(input) ==
    IF ParseIntIsNaN(input) \/ ParseIntValue(input) <= 0
    THEN UNCHANGED progVars
    ELSE /\ ParseIntValue(input) <= MaxPagesReq
         /\ config' = [config EXCEPT !.numPagesReq = ParseIntValue(input)]
         /\ words' = <<>>
         /\ pages' = <<>>
         /\ hashTable' = <<>>
         /\ stats' = InitStats
         /\ lastQuery' = NoQuery
         /\ display' = "none"
         /\ pending' = pending + 1
         /\ UNCHANGED <<variant, file>>

\* The model lets at most `cap` calls wait for their load: a click that
\* would start one more is left out (the script sets no such limit).
CanStart(input, cap) ==
    IF ParseIntIsNaN(input) \/ ParseIntValue(input) <= 0 THEN TRUE ELSE pending < cap

\* A click on the build button; the text of the field is not kept.
HandleBuildIndex(input) ==
    /\ CanStart(input, MaxPending)
    /\ BuildIndexStart(input)
    /\ UNCHANGED <<hashVars, numPagesInput, overlapped>>

\* A click on the build button, the text of the field kept in numPagesInput.
HandleBuildIndexTyped(input) ==
    /\ CanStart(input, MaxPending)
    /\ BuildIndexStart(input)
    /\ numPagesInput' = input
    /\ UNCHANGED <<hashVars, overlapped>>

\* A click on the build button that may come while earlier calls still wait
\* for their load (up to MaxOverlap calls at once), the text of the field
\* kept in numPagesInput.  overlapped records whether an accepted click found
\* a call suspended.
HandleBuildIndexOverlapping(input) ==
    /\ CanStart(input, MaxOverlap)
    /\ BuildIndexStart(input)
    /\ numPagesInput' = input
    /\ overlapped' = IF pending' > pending THEN pending > 0 ELSE overlapped
    /\ UNCHANGED hashVars

\* handleBuildIndex awaits fetch() and then response.text().  No statement
\* between the two awaits touches the script's state, so the two suspensions
\* are one here: a call waits for its load, which fails or delivers the text.

\* The load fails: fetch is rejected, the response is not ok (the throw on
\* !response.ok), or response.text() is rejected.  The catch block raises an alert.
LoadFailed ==
    /\ pending > 0
    /\ pending' = pending - 1
    /\ UNCHANGED <<variant, file, words, pages, hashTable, config, stats, lastQuery,
                   display, hashVars, numPagesInput, overlapped>>

\* The load delivers the text: the rest of handleBuildIndex runs without
\* another await: words, config.totalWords, createPages(), createBuckets(),
\* populateHashTable(), setResultsPlaceholder() wipes the result panels and
\* the panels are shown.
LoadResolved ==
    /\ pending > 0
    /\ LET ws == NonBlank(SplitLines(file))
           cfg0 == [config EXCEPT !.totalWords = Len(ws)]
           paged == createPages(ws, cfg0)
           made == createBuckets(variant, paged.config)
           filled == populateHashTable(variant, paged.pages, made.hashTable, made.config)
       IN /\ words' = ws
          /\ pages' = paged.pages
          /\ config' = made.config
          /\ hashTable' = filled.hashTable
          /\ stats' = filled.stats
    /\ lastQuery' = NoQuery
    /\ display' = "block"
    /\ pending' = pending - 1
    /\ UNCHANGED <<variant, file, hashVars, numPagesInput, overlapped>>

\* searchWithIndex with `text` in the search box: a blank box returns at once.
SearchWithIndex(text) ==
    /\ lastQuery' = IF QueryKey(variant, text) = <<>> THEN lastQuery
                    ELSE IndexOutcome(variant, text)
    /\ UNCHANGED <<variant, file, words, pages, hashTable, config, stats, pending,
                   display, hashVars, numPagesInput, overlapped>>

\* The scan taking its pages with pages.shift(): the pages it reads are gone.
PerformTableScanShift(text) ==
    /\ lastQuery' = IF QueryKey(variant, text) = <<>> THEN lastQuery
                    ELSE ScanOutcome(variant, text)
    /\ pages' = IF QueryKey(variant, text) = <<>> THEN pages
                ELSE SubSeq(pages, ScanOutcome(variant, text).cost + 1, Len(pages))
    /\ UNCHANGED <<variant, file, words, hashTable, config, stats, pending,
                   display, hashVars, numPagesInput, overlapped>>

\* performTableScan with `text` in the search box: a blank box returns at once.
PerformTableScan(text) ==
    /\ lastQuery' = IF QueryKey(variant, text) = <<>> THEN lastQuery
                    ELSE ScanOutcome(variant, text)
    /\ UNCHANGED <<variant, file, words, pages, hashTable, config, stats, pending,
                   display, hashVars, numPagesInput, overlapped>>

(***************************************************************************)
(* Specification of the page                                               *)
(***************************************************************************)
\* Sequences over S of length at most n.
SeqsUpTo(S, n) == UNION {[1..k -> S] : k \in 0..n}

\* What the server may hold: up to MaxWords lines over LongPool, or up to
\* MaxShortWords lines over the whole pool.
Files == SeqsUpTo(LongPool, MaxWords) \cup SeqsUpTo(KeyPool, MaxShortWords)

NoHashCall == [done |-> FALSE]

Init ==
    /\ variant \in {1, 2, 3}
    /\ file \in Files
    /\ words = <<>>
    /\ pages = <<>>
    /\ hashTable = <<>>
    /\ config = InitConfig
    /\ stats = InitStats
    /\ pending = 0
    /\ lastQuery = NoQuery
    /\ display = "css"
    /\ hashIn = [key |-> <<>>, n |-> 1]
    /\ hashOut = NoHashCall
    /\ numPagesInput = <<>>
    /\ overlapped = FALSE

Next ==
    \/ \E input \in PageInputs : HandleBuildIndex(input)
    \/ LoadFailed
    \/ LoadResolved
    \/ \E text \in SearchTexts : SearchWithIndex(text)
    \/ \E text \in SearchTexts : PerformTableScan(text)

Spec == Init /\ [][Next]_vars

\* The page with one given script loaded.
InitV1 == Init /\ variant = 1
InitV2 == Init /\ variant = 2
InitV3 == Init /\ variant = 3

SpecV1 == InitV1 /\ [][Next]_vars
SpecV2 == InitV2 /\ [][Next]_vars
SpecV3 == InitV3 /\ [][Next]_vars

\* The page with either script of src/script.js loaded.
InitScript == Init /\ variant \in {1, 2}
SpecScript == InitScript /\ [][Next]_vars

(***************************************************************************)
(* Specification of the build button, with the text of its field on record *)
(***************************************************************************)
InitInput == Init

NextInput ==
    \/ \E input \in PageInputs : HandleBuildIndexTyped(input)
    \/ LoadFailed
    \/ LoadResolved

SpecInput == InitInput /\ [][NextInput]_vars

(***************************************************************************)
(* Specification of overlapping builds: clicks on the build button while   *)
(* earlier calls wait for their load, every load delivering the same text  *)
(***************************************************************************)
InitOverlap == Init

NextOverlap ==
    \/ \E input \in PageInputs : HandleBuildIndexOverlapping(input)
    \/ LoadResolved

SpecOverlap == InitOverlap /\ [][NextOverlap]_vars

(***************************************************************************)
(* Specification of hashFunction alone                                     *)
(***************************************************************************)
HashChars == {97, 122, 65535}

InitHash ==
    /\ variant = 1
    /\ file = <<>>
    /\ words = <<>>
    /\ pages = <<>>
    /\ hashTable = <<>>
    /\ config = InitConfig
    /\ stats = InitStats
    /\ pending = 0
    /\ lastQuery = NoQuery
    /\ display = "css"
    /\ hashIn \in [key : SeqsUpTo(HashChars, MaxHashLen), n : 1..MaxHashBuckets]
    /\ hashOut = NoHashCall
    /\ numPagesInput = <<>>
    /\ overlapped = FALSE

\* hashFunction(hashIn.key) with config.numBuckets = hashIn.n.
HashCall ==
    /\ hashOut = NoHashCall
    /\ hashOut' = [done |-> TRUE, value |-> HashMod(hashIn.key, hashIn.n)]
    /\ UNCHANGED <<progVars, hashIn, numPagesInput, overlapped>>

NextHash == HashCall

SpecHash == InitHash /\ [][NextHash]_vars

(***************************************************************************)
(* Vocabulary of the properties                                            *)
(***************************************************************************)
\* The last handleBuildIndex call to finish ran to its end, and no later
\* call has reset the state: the panels are on show.
Built == display = "block"

RECURSIVE ConcatAll(_)
ConcatAll(ss) == IF ss = <<>> THEN <<>> ELSE Head(ss) \o ConcatAll(Tail(ss))

\* Every entry of the table, bucket by bucket.
AllEntries == ConcatAll([b \in 1..Len(hashTable) |-> ProbeOrder(variant, b - 1)])

Occurrences(s, k) == Cardinality({i \in DOMAIN s : s[i] = k})

EntryOccurrences(k) == Cardinality({i \in DOMAIN AllEntries : AllEntries[i].key = k})

\* lastQuery is what the handler `op` put on display (found or not found) for some text.
Reported(op) == lastQuery.op = op /\ lastQuery.status # "TypeError"

\* Page p (0-based) holds a word equal to k up to letter case.
PageHolds(p, k) ==
    /\ p + 1 \in DOMAIN pages
    /\ \E j \in DOMAIN pages[p + 1] : ToLowerCase(pages[p + 1][j]) = ToLowerCase(k)

\* The table before populateHashTable's first round, and the rounds' inputs.
FreshTable == createBuckets(variant, config).hashTable
BuildEntries == PageEntries(pages, 0)

(***************************************************************************)
(* C1  Variant 1: after a build, searching with the index for a word of    *)
(* the word list, typed as it stands in the list, reports it found, on a   *)
(* page that holds it (up to letter case).                                 *)
(***************************************************************************)
C1_RoundTripV1 ==
    (variant = 1 /\ Built /\ Reported("index")
        /\ \E i \in DOMAIN words : words[i] = lastQuery.text)
    => /\ lastQuery.status = "found"
       /\ PageHolds(lastQuery.page, lastQuery.text)

(***************************************************************************)
(* C2  Variant 2: the build hashes a word in the form in which the search  *)
(* hashes it, so that searching with the index for a word of the word list *)
(* reports it found, upper-case letters or not.  Only words without        *)
(* surrounding blanks are considered, to leave the trimming of C1 aside.   *)
(***************************************************************************)
C2_FoundV2 ==
    (variant = 2 /\ Built /\ Reported("index")
        /\ Trim(lastQuery.text) = lastQuery.text
        /\ \E i \in DOMAIN words : words[i] = lastQuery.text)
    => lastQuery.status = "found"

(***************************************************************************)
(* C3  Variant 1: after a build, the index search and the table scan of    *)
(* the same text both report, agree on found / not found, and agree on the *)
(* page when they find the key.                                            *)
(***************************************************************************)
Agree(a, b) ==
    /\ a.status # "TypeError"
    /\ b.status # "TypeError"
    /\ a.status = b.status
    /\ a.status = "found" => a.page = b.page

C3_LookupAgreesWithScanV1 ==
    (variant = 1 /\ Built)
    => /\ lastQuery.op = "index"
          => /\ lastQuery.status # "TypeError"
             /\ Agree(lastQuery, ScanOutcome(1, lastQuery.text))
       /\ lastQuery.op = "scan"
          => Agree(IndexOutcome(1, lastQuery.text), lastQuery)

\* The same, for a word list that is not empty.
LookupAgreesWithScanNonEmptyV1 ==
    (variant = 1 /\ Built /\ words # <<>>)
    => /\ lastQuery.op = "index"
          => /\ lastQuery.status # "TypeError"
             /\ Agree(lastQuery, ScanOutcome(1, lastQuery.text))
       /\ lastQuery.op = "scan"
          => Agree(IndexOutcome(1, lastQuery.text), lastQuery)

(***************************************************************************)
(* C4  After a build, the word list, the pages and the buckets hold the    *)
(* same number of keys, and every key as many times in each: nothing is    *)
(* dropped, nothing is stored twice.                                       *)
(***************************************************************************)
C4_Coverage ==
    Built
    => /\ Len(words) = Len(ConcatAll(pages))
       /\ Len(words) = Len(AllEntries)
       /\ \A k \in KeyPool :
              /\ Occurrences(words, k) = Occurrences(ConcatAll(pages), k)
              /\ Occurrences(words, k) = EntryOccurrences(k)

C4_Witness ==
    /\ Built
    /\ variant = 1
    /\ Len(pages) >= 2
    /\ \E b \in DOMAIN hashTable : hashTable[b].overflow # <<>>

(***************************************************************************)
(* C5  After a build over at least one word, wordsPerPage is               *)
(* ceil(totalWords / N), the pages are the successive windows of           *)
(* wordsPerPage words, each page but the last holds wordsPerPage words,    *)
(* the last one between 1 and wordsPerPage, and together they reach the    *)
(* end of the list.                                                        *)
(***************************************************************************)
C5_PageWindows ==
    (Built /\ Len(words) >= 1)
    => LET w == config.wordsPerPage
           n == config.numPagesReq
           k == Len(pages)
           total == Len(words)
       IN /\ w * n >= total
          /\ (w - 1) * n < total
          /\ k >= 1
          /\ k * w >= total
          /\ (k - 1) * w < total
          /\ \A i \in 1..(k - 1) : Len(pages[i]) = w
          /\ Len(pages[k]) >= 1
          /\ Len(pages[k]) <= w
          /\ \A i \in 1..k : pages[i] = SubSeq(words, (i - 1) * w + 1, Min(i * w, total))

C5_Witness ==
    /\ Built
    /\ Len(pages) >= 2
    /\ Len(pages[Len(pages)]) < config.wordsPerPage

(***************************************************************************)
(* C6  After a build, no more pages exist than were asked for.             *)
(***************************************************************************)
C6_PageCount ==
    Built
    => /\ config.numPagesCreated <= config.numPagesReq
       /\ Len(pages) <= config.numPagesReq

C6_Witness ==
    /\ Built
    /\ Len(words) >= 1
    /\ config.numPagesCreated < config.numPagesReq

(***************************************************************************)
(* C7  After a build, the pages taken in index order spell the word list,  *)
(* and the page indices in use are 0..k-1, every one of them.              *)
(***************************************************************************)
C7_PageOrder ==
    Built
    => /\ ConcatAll(pages) = words
       /\ DOMAIN pages = 1..config.numPagesCreated
       /\ {AllEntries[i].page : i \in DOMAIN AllEntries} = 0..(Len(pages) - 1)

C7_Witness ==
    /\ Built
    /\ Len(pages) >= 2
    /\ pages[1] # pages[2]
    /\ Len(pages[1]) >= 2
    /\ pages[1][1] # pages[1][2]

(***************************************************************************)
(* C8  hashFunction returns an integer from 0 to numBuckets - 1, for every *)
(* key (the empty one, and those whose accumulator is negative) and every  *)
(* numBuckets >= 1.                                                        *)
(***************************************************************************)
C8_HashRange ==
    hashOut # NoHashCall
    => /\ hashOut.value >= 0
       /\ hashOut.value < hashIn.n

C8_Witness ==
    /\ hashOut # NoHashCall
    /\ IsNegative32(HashAcc(HashSeed, hashIn.key))
    /\ hashIn.n > 1
    /\ hashOut.value > 0

(***************************************************************************)
(* C9  Variant 1: after a build, numBuckets > totalWords / bucketSize,     *)
(* whatever the number of words, none included.                            *)
(***************************************************************************)
C9_StrictSizingV1 ==
    (variant = 1 /\ Built)
    => config.numBuckets * config.bucketSize > config.totalWords

(***************************************************************************)
(* C10  Variants 1 and 2: no bucket ever holds more than bucketSize        *)
(* entries in items, neither in a state of the page nor after any round of *)
(* populateHashTable.                                                      *)
(***************************************************************************)
C10_PrimaryBounded ==
    variant \in {1, 2}
    => /\ \A b \in DOMAIN hashTable : Len(hashTable[b].items) <= config.bucketSize
       /\ Built
          => /\ PopulatePrefix(variant, BuildEntries, Len(BuildEntries), FreshTable,
                               config).hashTable = hashTable
             /\ \A k \in 0..Len(BuildEntries) :
                    LET t == PopulatePrefix(variant, BuildEntries, k, FreshTable,
                                            config).hashTable
                    IN \A b \in DOMAIN t : Len(t[b].items) <= config.bucketSize

C10_Witness ==
    /\ Built
    /\ variant = 2
    /\ \E b \in DOMAIN hashTable :
           /\ Len(hashTable[b].items) = config.bucketSize
           /\ hashTable[b].overflow # <<>>

(***************************************************************************)
(* C11  Variant 3: after a build, no bucket array of hashTable holds more  *)
(* than bucketSize (5) entries.                                            *)
(***************************************************************************)
C11_BucketBoundedV3 ==
    (variant = 3 /\ Built)
    => \A b \in DOMAIN hashTable : Len(hashTable[b]) <= config.bucketSize

(***************************************************************************)
(* C12  Variants 1 and 2: in every state of the page and after every round *)
(* of populateHashTable, a bucket with an entry in overflow has exactly    *)
(* bucketSize entries in items.                                            *)
(***************************************************************************)
OverflowOnlyWhenFull(table) ==
    \A b \in DOMAIN table :
        table[b].overflow # <<>> => Len(table[b].items) = config.bucketSize

C12_OverflowOnlyWhenFull ==
    variant \in {1, 2}
    => /\ OverflowOnlyWhenFull(hashTable)
       /\ Built
          => \A k \in 0..Len(BuildEntries) :
                 OverflowOnlyWhenFull(PopulatePrefix(variant, BuildEntries, k, FreshTable,
                                                     config).hashTable)

C12_Witness ==
    /\ Built
    /\ variant = 1
    /\ stats.overflows = 1
    /\ \E b \in DOMAIN hashTable : Len(hashTable[b].overflow) = 1
    /\ \E b \in DOMAIN hashTable : hashTable[b] = EmptyBucket

(***************************************************************************)
(* Where the index search of lastQuery.text looks, in the current table.   *)
(***************************************************************************)
\* The bucket the search probes (0-based), and its entries in probe order.
ProbedBucket == hashFunction(QueryKey(variant, lastQuery.text))
Probed == ProbeOrder(variant, ProbedBucket)

\* Position of the first match in the probed bucket, 0 when there is none.
ProbedMatch == FirstMatch(variant, Probed, QueryKey(variant, lastQuery.text), 1)

\* lastQuery is a report of searchWithIndex over the index now in place.
IndexReported == Built /\ Reported("index")

(***************************************************************************)
(* C13 as stated  Variants 1 and 2: an index search that finds its key in  *)
(* the overflow list reports a cost of at least 3, and one that does not   *)
(* find its key in a bucket with a non-empty overflow list reports a cost  *)
(* of at least 2.                                                          *)
(***************************************************************************)
C13_OverflowWalkCost ==
    (variant \in {1, 2} /\ IndexReported)
    => /\ (lastQuery.status = "found" /\ ProbedMatch > config.bucketSize)
          => lastQuery.cost >= 3
       /\ (lastQuery.status = "notfound" /\ Len(Probed) > config.bucketSize)
          => lastQuery.cost >= 2

(***************************************************************************)
(* C13 as amended  Variants 1 and 2: the overflow list is part of the one  *)
(* bucket the search reads, and walking it costs nothing: a key found in   *)
(* the overflow list is reported with cost 2, a key not found in a bucket  *)
(* with a non-empty overflow list with cost 1.                             *)
(***************************************************************************)
C13_OverflowCostsNothing ==
    (variant \in {1, 2} /\ IndexReported)
    => /\ (lastQuery.status = "found" /\ ProbedMatch > config.bucketSize)
          => lastQuery.cost = 2
       /\ (lastQuery.status = "notfound" /\ Len(Probed) > config.bucketSize)
          => lastQuery.cost = 1

\* A key found in the overflow list.
C13_Witness ==
    /\ variant = 1
    /\ IndexReported
    /\ lastQuery.status = "found"
    /\ ProbedMatch > config.bucketSize
    /\ lastQuery.key = kAb

(***************************************************************************)
(* C14  Every report of searchWithIndex carries cost 2 when the key is     *)
(* found and cost 1 when it is not, wherever the matching entry sits.      *)
(***************************************************************************)
C14_IndexCost ==
    Reported("index")
    => /\ lastQuery.status = "found" => lastQuery.cost = 2
       /\ lastQuery.status = "notfound" => lastQuery.cost = 1

\* A key not found in a bucket whose overflow list is in use.
C14_Witness ==
    /\ IndexReported
    /\ variant \in {1, 2}
    /\ lastQuery.status = "notfound"
    /\ Len(Probed) > config.bucketSize

(***************************************************************************)
(* C15  A table scan reads the pages in index order: when it finds the key *)
(* the page reported is the first one that holds it and the cost is that   *)
(* page's index plus 1; when no page holds the key the cost is the number  *)
(* of pages.                                                               *)
(***************************************************************************)
\* Page q (0-based) holds a word the scan of lastQuery.text accepts.
ScanPageHolds(q) ==
    \E j \in DOMAIN pages[q + 1] :
        Matches(variant, pages[q + 1][j], QueryKey(variant, lastQuery.text))

C15_ScanCost ==
    lastQuery.op = "scan"
    => /\ lastQuery.status = "found"
          => /\ lastQuery.page \in 0..(Len(pages) - 1)
             /\ ScanPageHolds(lastQuery.page)
             /\ \A q \in 0..(lastQuery.page - 1) : ~ScanPageHolds(q)
             /\ lastQuery.cost = lastQuery.page + 1
       /\ lastQuery.status = "notfound"
          => /\ \A q \in 0..(Len(pages) - 1) : ~ScanPageHolds(q)
             /\ lastQuery.cost = Len(pages)
       /\ lastQuery.status \in {"found", "notfound"}

\* A key found on the second page, after a first page of several words.
C15_Witness ==
    /\ Built
    /\ lastQuery.op = "scan"
    /\ lastQuery.status = "found"
    /\ lastQuery.page = 1
    /\ lastQuery.cost = 2
    /\ Len(pages[1]) >= 2

(***************************************************************************)
(* C16  searchWithIndex and performTableScan write none of words, pages,   *)
(* hashTable, config and stats, whatever the search text and the state;    *)
(* and for as long as a built index stays on show, whatever queries run,   *)
(* these five keep the values the build gave them.                         *)
(***************************************************************************)
IndexState == <<words, pages, hashTable, config, stats>>

\* A step in which a query handler put up a result (or raised its TypeError).
QueryStep == lastQuery' # lastQuery /\ lastQuery'.op \in {"index", "scan"}

C16_QueriesReadOnly ==
    [][(QueryStep \/ (Built /\ Built')) => UNCHANGED IndexState]_vars

\* Both results have been on display over the same built index.
C16_Witness ==
    /\ Built
    /\ Len(pages) = 2
    /\ lastQuery.op = "scan"
    /\ lastQuery.status = "found"
    /\ lastQuery.page = 1
    /\ IndexOutcome(variant, lastQuery.text).status = "found"

(***************************************************************************)
(* C17  A click on the build button with a page count that is missing, not *)
(* a number, zero or negative changes none of words, pages, hashTable,     *)
(* config (numPagesReq included) and stats, nor the panels and the result  *)
(* on display.                                                             *)
(***************************************************************************)
\* "", "x", "0", "-1"
InvalidPageInputs == {<<>>, <<120>>, <<48>>, <<45, 49>>}

\* A click on the build button with text from S in the field.
ClickedWith(S) == numPagesInput' # numPagesInput /\ numPagesInput' \in S

C17_InvalidInputNoChange ==
    [][ClickedWith(InvalidPageInputs) => UNCHANGED <<IndexState, pending, display, lastQuery>>]_vars

\* An index is in place and the last click came with an invalid page count.
C17_Witness ==
    /\ Built
    /\ words # <<>>
    /\ pending = 0
    /\ numPagesInput \in InvalidPageInputs \ {<<>>}

(***************************************************************************)
(* C18  A click on the build button with a page count that is not an       *)
(* integer ("2.5", or digits followed by other characters, "1x") is        *)
(* rejected like any invalid input: nothing is reset, nothing is built.    *)
(***************************************************************************)
\* "2.5", "1x"
NonIntegerPageInputs == {<<50, 46, 53>>, <<49, 120>>}

C18_NonIntegerRejected ==
    [][ClickedWith(NonIntegerPageInputs)
           => UNCHANGED <<IndexState, pending, display, lastQuery>>]_vars

(***************************************************************************)
(* C19  On the page as loaded, before any build has been started, a query  *)
(* with a non-blank key ends in an explicit query-before-build error: it   *)
(* displays neither found nor not found, and raises no TypeError on an     *)
(* undefined bucket.                                                       *)
(***************************************************************************)
\* No handleBuildIndex call has passed its validation yet.
NeverBuilt == display = "css"

C19_QueryBeforeBuildFails ==
    (NeverBuilt /\ lastQuery.op \in {"index", "scan"})
    => lastQuery.status \notin {"found", "notfound", "TypeError"}

(***************************************************************************)
(* C20  A query that runs while a rebuild is suspended on its load works   *)
(* on a complete index, the previous one or the new one: it raises no      *)
(* TypeError, and words, pages and hashTable are those of a finished       *)
(* build.  (config.totalWords > 0 tells that an earlier build over a word  *)
(* list that is not empty has finished: resetState leaves config alone.)   *)
(***************************************************************************)
C20_AtomicRebuild ==
    (pending > 0 /\ config.totalWords > 0 /\ lastQuery.op \in {"index", "scan"})
    => /\ lastQuery.status # "TypeError"
       /\ words = NonBlank(SplitLines(file))
       /\ ConcatAll(pages) = words
       /\ Len(hashTable) = config.numBuckets

(***************************************************************************)
(* C21  Variants 1 and 2: a build over an empty word list ends, with no    *)
(* page, no entry in any bucket, both counters at 0, and both rates shown  *)
(* as 0 rather than as the NaN of 0 / 0.                                   *)
(***************************************************************************)
C21_EmptyBuild ==
    (variant \in {1, 2} /\ Built /\ NonBlank(SplitLines(file)) = <<>>)
    => /\ words = <<>>
       /\ config.totalWords = 0
       /\ pages = <<>>
       /\ config.numPagesCreated = 0
       /\ \A b \in DOMAIN hashTable : hashTable[b] = EmptyBucket
       /\ stats = [collisions |-> 0, overflows |-> 0]
       /\ collisionPercent = 0
       /\ overflowPercent = 0

C21_Witness ==
    /\ Built
    /\ variant = 2
    /\ file = <<>>
    /\ config.numPagesReq = 2
    /\ Len(hashTable) = 1

(***************************************************************************)
(* C22  Variants 1 and 2: after a build, stats.collisions is the number of *)
(* entries that went into an items list holding an entry already (all of   *)
(* a list's entries but its first), stats.overflows is the number of       *)
(* entries in the overflow lists, and collisions + overflows + the number  *)
(* of buckets in use is totalWords.                                        *)
(***************************************************************************)
RECURSIVE SumOver(_, _)
SumOver(s, i) == IF i > Len(s) THEN 0 ELSE s[i] + SumOver(s, i + 1)

\* Per bucket: the entries of items after the first, and the entries of overflow.
LaterItems == [b \in DOMAIN hashTable |->
                  IF hashTable[b].items = <<>> THEN 0 ELSE Len(hashTable[b].items) - 1]
OverflowItems == [b \in DOMAIN hashTable |-> Len(hashTable[b].overflow)]
BucketsInUse == Cardinality({b \in DOMAIN hashTable : hashTable[b].items # <<>>})

C22_StatsPolicy ==
    (variant \in {1, 2} /\ Built)
    => /\ stats.collisions = SumOver(LaterItems, 1)
       /\ stats.overflows = SumOver(OverflowItems, 1)
       /\ stats.collisions + stats.overflows + BucketsInUse = config.totalWords

\* Six words in one bucket: its items full and one entry in overflow.
C22_Witness ==
    /\ Built
    /\ variant = 2
    /\ stats.collisions = 4
    /\ stats.overflows = 1
    /\ config.totalWords = 6

(***************************************************************************)
(* C23  The state a build leaves depends on the word list and the page     *)
(* count alone: whatever builds and queries came before, words, pages,     *)
(* hashTable, stats and config are those of a build made on the page as    *)
(* loaded, with the same file and the same page count.                     *)
(***************************************************************************)
\* The build of word list ws with page count n on the page as loaded.
FirstBuild(ws, n) ==
    LET cfg0 == [InitConfig EXCEPT !.numPagesReq = n, !.totalWords = Len(ws)]
        paged == createPages(ws, cfg0)
        made == createBuckets(variant, paged.config)
        filled == populateHashTable(variant, paged.pages, made.hashTable, made.config)
    IN [words |-> ws, pages |-> paged.pages, config |-> made.config,
        hashTable |-> filled.hashTable, stats |-> filled.stats]

C23_BuildDeterministic ==
    Built
    => LET first == FirstBuild(NonBlank(SplitLines(file)), config.numPagesReq)
       IN /\ words = first.words
          /\ pages = first.pages
          /\ hashTable = first.hashTable
          /\ stats = first.stats
          /\ config = first.config

\* A build with two pages and collisions is in place.
C23_Witness ==
    /\ Built
    /\ Len(pages) = 2
    /\ Len(pages[2]) < Len(pages[1])
    /\ stats.collisions >= 2

(***************************************************************************)
(* C24  Variant 1: an index search whose text, lower-cased, equals the     *)
(* lower-cased form of a word of the list reports it found, and shows a    *)
(* word of the list, in the case it was stored in, that equals the text    *)
(* up to letter case.                                                      *)
(***************************************************************************)
C24_CaseInsensitiveV1 ==
    (variant = 1 /\ Built /\ Reported("index")
        /\ \E i \in DOMAIN words : ToLowerCase(words[i]) = ToLowerCase(lastQuery.text))
    => /\ lastQuery.status = "found"
       /\ \E i \in DOMAIN words : words[i] = lastQuery.key
       /\ ToLowerCase(lastQuery.key) = ToLowerCase(lastQuery.text)

\* The same, for search texts without surrounding blanks.
CaseInsensitiveTrimmedV1 ==
    (variant = 1 /\ Built /\ Reported("index")
        /\ Trim(lastQuery.text) = lastQuery.text
        /\ \E i \in DOMAIN words : ToLowerCase(words[i]) = ToLowerCase(lastQuery.text))
    => /\ lastQuery.status = "found"
       /\ \E i \in DOMAIN words : words[i] = lastQuery.key
       /\ ToLowerCase(lastQuery.key) = ToLowerCase(lastQuery.text)

(***************************************************************************)
(* C25  Variant 1: after a build, every entry {key, page} of bucket b, in  *)
(* items or in overflow, has hashFunction(key.toLowerCase()) = b and its   *)
(* key among the words of pages[page]; and every occurrence of a word on a *)
(* page has its one entry: as many entries {key, page} in the whole table  *)
(* as pages[page] holds occurrences of key.                                *)
(***************************************************************************)
\* The entries {key |-> k, page |-> p} of the whole table.
EntriesOf(k, p) ==
    Cardinality({i \in DOMAIN AllEntries : AllEntries[i] = [key |-> k, page |-> p]})

C25_EntryBucketV1 ==
    (variant = 1 /\ Built)
    => /\ \A b \in DOMAIN hashTable :
              \A i \in DOMAIN ProbeOrder(1, b - 1) :
                  LET entry == ProbeOrder(1, b - 1)[i]
                  IN /\ HashMod(ToLowerCase(entry.key), config.numBuckets) = b - 1
                     /\ entry.page + 1 \in DOMAIN pages
                     /\ \E j \in DOMAIN pages[entry.page + 1] :
                            pages[entry.page + 1][j] = entry.key
       /\ \A p \in DOMAIN pages :
              \A j \in DOMAIN pages[p] :
                  EntriesOf(pages[p][j], p - 1) = Occurrences(pages[p], pages[p][j])

\* "Ab" sits in the overflow list of the bucket that "c" filled.
C25_Witness ==
    /\ Built
    /\ variant = 1
    /\ \E b \in DOMAIN hashTable :
           /\ hashTable[b].overflow # <<>>
           /\ hashTable[b].overflow[1].key = kAb
           /\ hashTable[b].items[1].key = kc

(***************************************************************************)
(* C26  Variant 1: when several words of the list equal the search key up  *)
(* to letter case, the index search and the table scan both report the     *)
(* page of the first of them in the order of the list: the lowest page     *)
(* index that holds one.                                                   *)
(***************************************************************************)
C26_FirstOccurrenceV1 ==
    (variant = 1 /\ Built /\ lastQuery.op \in {"index", "scan"}
        /\ lastQuery.status = "found")
    => /\ lastQuery.page \in 0..(Len(pages) - 1)
       /\ ScanPageHolds(lastQuery.page)
       /\ \A q \in 0..(lastQuery.page - 1) : ~ScanPageHolds(q)

\* "Ab" on the first page and "ab" on the second: the index search reports the first.
C26_Witness ==
    /\ variant = 1
    /\ Built
    /\ lastQuery.op = "index"
    /\ lastQuery.status = "found"
    /\ lastQuery.page = 0
    /\ Len(pages) = 2
    /\ ScanPageHolds(1)
    /\ pages[2][1] # lastQuery.key

(***************************************************************************)
(* C27  Whenever no handleBuildIndex call is suspended (on the page as     *)
(* loaded, after a finished build, after a rejected page count, after a    *)
(* failed load), config agrees with the data: numBuckets is the length of  *)
(* hashTable, totalWords that of words, numPagesCreated that of pages.     *)
(***************************************************************************)
C27_ConfigConsistent ==
    pending = 0
    => /\ config.numBuckets = Len(hashTable)
       /\ config.totalWords = Len(words)
       /\ config.numPagesCreated = Len(pages)

(***************************************************************************)
(* C28  Two builds that overlap: a click with page count N1, then, while   *)
(* that call still waits for its load, a click with page count N2, both    *)
(* loads delivering the same text.  Once every call has completed, pages,  *)
(* hashTable, stats and config (and words) are those of a single build     *)
(* with page count N2, in whichever order the loads were delivered.        *)
(***************************************************************************)
\* The page count of the last click, when that click was accepted.
LastClickValid ==
    ~ParseIntIsNaN(numPagesInput) /\ ParseIntValue(numPagesInput) > 0

C28_OverlappingBuilds ==
    (overlapped /\ pending = 0 /\ Built /\ LastClickValid)
    => LET single == FirstBuild(NonBlank(SplitLines(file)), ParseIntValue(numPagesInput))
       IN /\ words = single.words
          /\ pages = single.pages
          /\ hashTable = single.hashTable
          /\ stats = single.stats
          /\ config = single.config

\* Both of two overlapping calls have completed; the second click asked for
\* two pages and the list has words enough to fill them.
C28_Witness ==
    /\ overlapped
    /\ pending = 0
    /\ Built
    /\ numPagesInput = <<50>>
    /\ Len(words) >= 3
    /\ Len(pages) = 2

(***************************************************************************)
(* C29  Variant 1: after a build that ran to its end, over any word list,  *)
(* the empty one included, searchWithIndex with a non-blank text computes  *)
(* a bucket index that is an index of hashTable, and reports found or not  *)
(* found: it never reads items of an undefined bucket.                     *)
(***************************************************************************)
C29_LookupCompletesV1 ==
    (variant = 1 /\ Built)
    => /\ \A text \in SearchTexts :
              QueryKey(1, text) # <<>>
              => ~BucketUndefined(hashFunction(QueryKey(1, text)))
       /\ lastQuery.op = "index" => lastQuery.status \in {"found", "notfound"}

(***************************************************************************)
(* C30  In every state in which a handler (build, index search, table      *)
(* scan) can start, the pages, put end to end, are the word list, and       *)
(* hashTable is either empty or holds exactly one entry for each word of   *)
(* each page: a build's createPages, createBuckets and populateHashTable   *)
(* run with no await between them, so that no click and no delivery of a   *)
(* load, in any order, leaves a table that is filled in part.              *)
(***************************************************************************)
\* s holds x as many times as t does.
SameCount(s, t, x) == Occurrences(s, x) = Occurrences(t, x)

C30_NeverPartial ==
    /\ ConcatAll(pages) = words
    /\ \/ hashTable = <<>>
       \/ /\ Len(AllEntries) = Len(words)
          /\ \A i \in DOMAIN BuildEntries :
                 SameCount(AllEntries, BuildEntries, BuildEntries[i])

\* One of two overlapping calls has run to its end and the other still waits
\* for its load: the table in place holds every word of the two pages, one
\* of them in an overflow list.
C30_Witness ==
    /\ Built
    /\ pending > 0
    /\ Len(pages) = 2
    /\ \E b \in DOMAIN hashTable : ProbeOrder(variant, b - 1) # <<>>
    /\ stats.overflows > 0
    /\ Len(AllEntries) = MaxWords

====
